---- MODULE Spec2Model ----
(***************************************************************************)
(* Model of the BNTX to DDS converter (src/main.cpp): the format tables,   *)
(* the 32-bit helpers, the block-linear deswizzle, the DDS header          *)
(* generator, the BNTX parser with main's empty-result check, and the      *)
(* texture export loop.                                                    *)
(*                                                                         *)
(* Payload bytes are symbolic.  The code never inspects them, it only      *)
(* moves them, so a vector deswizzle returns is its length and the set of  *)
(* memcpy calls that filled it; bytes no memcpy wrote are zero.            *)
(*                                                                         *)
(* u32 values of the model stay below 2^31; the only 32-bit wrap the       *)
(* bounded inputs reach is the x - 1 / y - 1 of round_up at zero, which is *)
(* written out case by case.                                               *)
(***************************************************************************)
EXTENDS Integers, Naturals, Sequences, FiniteSets, TLC

VARIABLES
    pc,        \* position of the running function
    args,      \* arguments of the current deswizzle call
    ret,       \* what deswizzle returned
    hdrIn,     \* arguments of the current generateDDSHeader call
    header,    \* what generateDDSHeader returned
    f,         \* the input file (std::vector<u8> f of parseBNTX)
    i,         \* loop index of parseBNTX
    textures,  \* std::vector<BNTXTexture>
    oob,       \* out-of-range reads performed so far: set of [at, width, size]
    diag,      \* messages written to std::cerr, in order
    exitCode,  \* return value of main, -1 while running
    idx,       \* loop position of saveTextures
    written    \* files written by saveTextures, in order

vars == <<pc, args, ret, hdrIn, header, f, i, textures, oob, diag, exitCode,
          idx, written>>

Null == [none |-> TRUE]

-----------------------------------------------------------------------------
(* Bounds of the model *)

MaxWidth == 65
MaxHeight == 17
MaxSizeRange == 5
MaxTex == 2
MaxTextures == 3

-----------------------------------------------------------------------------
(* DATA TABLES *)

formats ==
    (2 :> "R8_UNORM") @@ (7 :> "R5_G6_B5") @@ (9 :> "R8_G8") @@
    (11 :> "R8_G8_B8_A8") @@
    (26 :> "BC1") @@ (27 :> "BC2") @@ (28 :> "BC3") @@ (29 :> "BC4") @@
    (30 :> "BC5") @@ (31 :> "BC6H") @@ (32 :> "BC7") @@
    (45 :> "ASTC4x4") @@ (46 :> "ASTC5x4") @@ (47 :> "ASTC5x5") @@
    (48 :> "ASTC6x5") @@ (49 :> "ASTC6x6") @@ (50 :> "ASTC8x5") @@
    (51 :> "ASTC8x6") @@ (52 :> "ASTC8x8") @@ (53 :> "ASTC10x5") @@
    (54 :> "ASTC10x6") @@ (55 :> "ASTC10x8") @@ (56 :> "ASTC10x10") @@
    (57 :> "ASTC12x10") @@ (58 :> "ASTC12x12")

bpps ==
    (11 :> 4) @@ (7 :> 2) @@ (2 :> 1) @@ (9 :> 2) @@ (26 :> 8) @@
    (27 :> 16) @@ (28 :> 16) @@ (29 :> 8) @@ (30 :> 16) @@ (31 :> 16) @@
    [k \in 32..32 |-> 16] @@ [k \in 45..58 |-> 16]

blkDims ==
    [k \in 26..32 |-> <<4, 4>>] @@
    (45 :> <<4, 4>>) @@ (46 :> <<5, 4>>) @@ (47 :> <<5, 5>>) @@
    (48 :> <<6, 5>>) @@ (49 :> <<6, 6>>) @@ (50 :> <<8, 5>>) @@
    (51 :> <<8, 6>>) @@ (52 :> <<8, 8>>) @@ (53 :> <<10, 5>>) @@
    (54 :> <<10, 6>>) @@ (55 :> <<10, 8>>) @@ (56 :> <<10, 10>>) @@
    (57 :> <<12, 10>>) @@ (58 :> <<12, 12>>)

-----------------------------------------------------------------------------
(* UTILITY FUNCTIONS *)

RECURSIVE BitOr(_, _)
BitOr(a, b) ==
    IF a = 0 THEN b
    ELSE IF b = 0 THEN a
    ELSE (IF a % 2 = 1 \/ b % 2 = 1 THEN 1 ELSE 0)
         + 2 * BitOr(a \div 2, b \div 2)

DIV_ROUND_UP(n, d) == (n + d - 1) \div d

\* ((x - 1) | (y - 1)) + 1 in u32.  At x = 0 or y = 0 the subtraction wraps
\* to 0xFFFFFFFF, the OR is 0xFFFFFFFF and the + 1 wraps to 0.
round_up(x, y) ==
    IF x = 0 \/ y = 0 THEN 0 ELSE BitOr(x - 1, y - 1) + 1

-----------------------------------------------------------------------------
(* TEGRA BLOCK LINEAR SWIZZLE *)

\* getAddrBlockLinear with the block height left out of the column term
getAddrBlockLinear_Mut(x, y, image_width, bytes_per_pixel, base_address, block_height) ==
    LET image_width_in_gobs == DIV_ROUND_UP(image_width * bytes_per_pixel, 64)
        GOB_address ==
            base_address
            + (y \div (8 * block_height)) * 512 * block_height
              * image_width_in_gobs
            + ((x * bytes_per_pixel) \div 64) * 512
            + ((y % (8 * block_height)) \div 8) * 512
        xb == x * bytes_per_pixel
    IN  GOB_address + ((xb % 64) \div 32) * 256 + ((y % 8) \div 2) * 64
        + ((xb % 32) \div 16) * 32 + (y % 2) * 16 + (xb % 16)

getAddrBlockLinear(x, y, image_width, bytes_per_pixel, base_address, block_height) ==
    LET image_width_in_gobs == DIV_ROUND_UP(image_width * bytes_per_pixel, 64)
        GOB_address ==
            base_address
            + (y \div (8 * block_height)) * 512 * block_height
              * image_width_in_gobs
            + ((x * bytes_per_pixel) \div 64) * 512 * block_height
            + ((y % (8 * block_height)) \div 8) * 512
        xb == x * bytes_per_pixel
    IN  GOB_address + ((xb % 64) \div 32) * 256 + ((y % 8) \div 2) * 64
        + ((xb % 32) \div 16) * 32 + (y % 2) * 16 + (xb % 16)

\* The deterministic part of deswizzle: the sizes it computes and the memcpy
\* calls it performs, each as [dst |-> pos_, src |-> pos].  dataLen is
\* data.size().
deswizzle(width0, height0, blkWidth, blkHeight, bpp, tileMode, alignment, size_range, dataLen) ==
    LET block_height == 2 ^ size_range
        width == DIV_ROUND_UP(width0, blkWidth)
        height == DIV_ROUND_UP(height0, blkHeight)
        pitch == IF tileMode = 0 THEN round_up(width * bpp, 32)
                                 ELSE round_up(width * bpp, 64)
        surfSize ==
            IF tileMode = 0
            THEN round_up(pitch * height, alignment)
            ELSE round_up(pitch * round_up(height, block_height * 8),
                          alignment)
        Pos(x, y) ==
            IF tileMode = 0 THEN y * pitch + x * bpp
            ELSE getAddrBlockLinear(x, y, width, bpp, 0, block_height)
        Pos_(x, y) == (y * width + x) * bpp
        blocks ==
            {[dst |-> Pos_(b[1], b[2]), src |-> Pos(b[1], b[2])] :
                b \in (0 .. width - 1) \X (0 .. height - 1)}
    IN  [width |-> width, height |-> height, bpp |-> bpp,
         pitch |-> pitch, surfSize |-> surfSize, dataLen |-> dataLen,
         copies |-> {c \in blocks : /\ c.src + bpp <= surfSize
                                    /\ c.dst + bpp <= dataLen}]

\* memcpy(&result[pos_], &data[pos], bpp) calls that leave their buffers
BadReads(r) == {c \in r.copies : c.src + r.bpp > r.dataLen}
BadWrites(r) == {c \in r.copies : c.dst + r.bpp > r.surfSize}

\* Block dimensions and bytes per block as saveTextures looks them up
BlkWidthOf(formatType) ==
    IF formatType \in DOMAIN blkDims THEN blkDims[formatType][1] ELSE 1
BlkHeightOf(formatType) ==
    IF formatType \in DOMAIN blkDims THEN blkDims[formatType][2] ELSE 1
BppOf(formatType) ==
    IF formatType \in DOMAIN bpps THEN bpps[formatType] ELSE 4

ExpectedSize(width0, height0, formatType) ==
    DIV_ROUND_UP(width0, BlkWidthOf(formatType))
    * DIV_ROUND_UP(height0, BlkHeightOf(formatType)) * BppOf(formatType)

\* result[dst .. dst + bpp) holds data[src .. src + bpp): a memcpy with these
\* offsets was performed and both ranges lie inside their vectors.
OutputIs(r, dst, src) ==
    /\ [dst |-> dst, src |-> src] \in r.copies
    /\ dst + r.bpp <= r.surfSize
    /\ src + r.bpp <= r.dataLen

-----------------------------------------------------------------------------
(* DDS HEADER GENERATION *)

\* std::memcpy(&header[at], bytes, Len(bytes)); header[at] is element at + 1
Put(h, at, bytes) ==
    [k \in 1 .. Len(h) |->
        IF k > at /\ k <= at + Len(bytes) THEN bytes[k - at] ELSE h[k]]

\* The four bytes of a u32 in memory (little-endian host)
U32Bytes(v) ==
    <<v % 256, (v \div 256) % 256, (v \div 65536) % 256,
      (v \div 16777216) % 256>>

\* "DXT1", "DXT3", "DXT5", "ATI1", "ATI2", "BC6H", "BC7 " as char codes
FourCCOf(format) ==
    IF format = 26 THEN <<68, 88, 84, 49>>
    ELSE IF format = 27 THEN <<68, 88, 84, 51>>
    ELSE IF format = 28 THEN <<68, 88, 84, 53>>
    ELSE IF format = 29 THEN <<65, 84, 73, 49>>
    ELSE IF format = 30 THEN <<65, 84, 73, 50>>
    ELSE IF format = 31 THEN <<66, 67, 54, 72>>
    ELSE IF format = 32 THEN <<66, 67, 55, 32>>
    ELSE <<>>

\* generateDDSHeader with height and width stored at each other's offset
generateDDSHeader_Mut(width, height, format, size) ==
    LET h0 == [k \in 1 .. 128 |-> 0]
        h1 == Put(h0, 0, <<68, 68, 83, 32>>)
        h2 == Put(h1, 4, U32Bytes(124))
        h3 == Put(h2, 8, U32Bytes(528391))
        h4 == Put(h3, 12, U32Bytes(width))
        h5 == Put(h4, 16, U32Bytes(height))
        h6 == Put(h5, 20, U32Bytes(size))
        h7 == Put(h6, 28, U32Bytes(1))
        h8 == Put(h7, 76, U32Bytes(32))
        h9 == Put(h8, 80, U32Bytes(4))
        h10 == Put(h9, 84, FourCCOf(format))
    IN  Put(h10, 108, U32Bytes(4096))

generateDDSHeader(width, height, format, size) ==
    LET h0 == [k \in 1 .. 128 |-> 0]
        h1 == Put(h0, 0, <<68, 68, 83, 32>>)       \* 'D' 'D' 'S' ' '
        h2 == Put(h1, 4, U32Bytes(124))             \* headerSize
        h3 == Put(h2, 8, U32Bytes(528391))          \* 0x1|0x2|0x4|0x1000|0x80000
        h4 == Put(h3, 12, U32Bytes(height))
        h5 == Put(h4, 16, U32Bytes(width))
        h6 == Put(h5, 20, U32Bytes(size))
        h7 == Put(h6, 28, U32Bytes(1))              \* mips
        h8 == Put(h7, 76, U32Bytes(32))             \* pfSize
        h9 == Put(h8, 80, U32Bytes(4))              \* pfFlags
        h10 == Put(h9, 84, FourCCOf(format))        \* if (fourcc) memcpy
    IN  Put(h10, 108, U32Bytes(4096))               \* caps1

\* Read32LE(&data[at])
Read32LE(data, at) ==
    data[at + 1] + data[at + 2] * 256 + data[at + 3] * 65536
    + data[at + 4] * 16777216

-----------------------------------------------------------------------------
(* Specification of deswizzle calls *)

Widths == {0, 1, 17, MaxWidth}
Heights == {0, 1, 9, MaxHeight}
Alignments == {0, 1, 3, 512}
TileModes == {0, 1}
DeswizzleFormats == {2, 7, 11, 26, 28, 46}
GarbageBytes == {0, -1}

\* Sizes a payload can be declared with: nothing, the linear size without
\* padding, the pitched linear surface, the block-linear surface.
ImageSizes(w, h, fmt, sr) ==
    LET gw == DIV_ROUND_UP(w, BlkWidthOf(fmt))
        gh == DIV_ROUND_UP(h, BlkHeightOf(fmt))
        b == BppOf(fmt)
    IN  {ExpectedSize(w, h, fmt),
         round_up(gw * b, 32) * gh,
         round_up(gw * b, 64) * round_up(gh, 8 * (2 ^ sr))}

InitDeswizzle ==
    /\ pc = "call"
    /\ \E w \in Widths, h \in Heights, fmt \in DeswizzleFormats,
          tm \in TileModes, al \in Alignments, sr \in 0 .. MaxSizeRange :
          \E len \in ImageSizes(w, h, fmt, sr) :
              \* size_range is read in block-linear mode only
              /\ tm = 0 => sr \in {0, MaxSizeRange}
              /\ args = [width |-> w, height |-> h, format |-> fmt,
                      tileMode |-> tm, alignment |-> al, sizeRange |-> sr,
                      imageSize |-> len]
    /\ ret = Null /\ hdrIn = Null /\ header = <<>>
    /\ f = Null /\ i = 0 /\ textures = <<>> /\ oob = {} /\ diag = <<>>
    /\ exitCode = -1 /\ idx = 0 /\ written = <<>>

Deswizzled(a) ==
    deswizzle(a.width, a.height, BlkWidthOf(a.format), BlkHeightOf(a.format),
              BppOf(a.format), a.tileMode, a.alignment, a.sizeRange,
              a.imageSize)

\* Every memcpy stays inside data and result: deswizzle returns its vector.
DeswizzleReturn ==
    /\ pc = "call"
    /\ LET r == Deswizzled(args)
       IN  /\ BadReads(r) = {} /\ BadWrites(r) = {}
           /\ ret' = r @@ [garbage |-> 0]
    /\ pc' = "returned"
    /\ UNCHANGED <<args, hdrIn, header, f, i, textures, oob, diag, exitCode,
                   idx, written>>

\* A memcpy leaves a buffer and the process is killed.
DeswizzleFault ==
    /\ pc = "call"
    /\ LET r == Deswizzled(args)
       IN  /\ BadReads(r) # {} \/ BadWrites(r) # {}
           /\ ret' = r @@ [garbage |-> 0]
    /\ pc' = "fault"
    /\ UNCHANGED <<args, hdrIn, header, f, i, textures, oob, diag, exitCode,
                   idx, written>>

\* A memcpy leaves a buffer and the process goes on with whatever was there.
DeswizzleGarbage ==
    /\ pc = "call"
    /\ LET r == Deswizzled(args)
       IN  /\ BadReads(r) # {} \/ BadWrites(r) # {}
           /\ \E g \in GarbageBytes : ret' = r @@ [garbage |-> g]
    /\ pc' = "returned"
    /\ UNCHANGED <<args, hdrIn, header, f, i, textures, oob, diag, exitCode,
                   idx, written>>

NextDeswizzle == DeswizzleReturn \/ DeswizzleFault \/ DeswizzleGarbage

SpecDeswizzle == InitDeswizzle /\ [][NextDeswizzle]_vars

-----------------------------------------------------------------------------
(* Properties of deswizzle *)

GridW == DIV_ROUND_UP(args.width, BlkWidthOf(args.format))
GridH == DIV_ROUND_UP(args.height, BlkHeightOf(args.format))
Grid == (0 .. GridW - 1) \X (0 .. GridH - 1)

\* C1: when the payload is shorter than the computed surface size, every
\* memcpy deswizzle performs reads inside data and writes inside result.
C1_NoOutOfRangeAccess ==
    (pc # "call" /\ args.imageSize < ret.surfSize)
        => (BadReads(ret) = {} /\ BadWrites(ret) = {})

\* C4: in linear mode, with a payload of gridH rows of pitch bytes, block
\* (x, y) of the output is the payload block at y * pitch + x * bpp.
C4_LinearIdentity ==
    LET bpp == BppOf(args.format)
        pitch == round_up(GridW * bpp, 32)
    IN  (/\ pc = "returned" /\ args.tileMode = 0
         /\ GridW > 0 /\ GridH > 0
         /\ args.imageSize = pitch * GridH)
            => \A b \in Grid :
                   OutputIs(ret, (b[2] * GridW + b[1]) * bpp,
                            b[2] * pitch + b[1] * bpp)

\* C5: the surface size deswizzle computes is at least the expected size
\* gridW * gridH * bytesPerBlock.
C5_SizeMonotonic ==
    pc = "returned"
        => ret.surfSize >= ExpectedSize(args.width, args.height, args.format)

\* C10: in block-linear mode the source ranges of the grid's blocks are
\* pairwise disjoint and end inside pitch * roundUp(gridH, 8 * blockHeight);
\* with a payload of at least that size and alignment >= 1 every block is
\* copied, from its own source range.
C10_TiledBijection ==
    LET bpp == BppOf(args.format)
        bh == 2 ^ args.sizeRange
        Addr(b) == getAddrBlockLinear(b[1], b[2], GridW, bpp, 0, bh)
        tiled == round_up(GridW * bpp, 64) * round_up(GridH, 8 * bh)
    IN  (pc = "returned" /\ args.tileMode # 0)
            => /\ Cardinality({Addr(b) + k : b \in Grid, k \in 0 .. bpp - 1})
                    = GridW * GridH * bpp
               /\ \A b \in Grid : Addr(b) + bpp <= tiled
               /\ (args.imageSize >= tiled /\ args.alignment >= 1)
                    => \A b \in Grid :
                           OutputIs(ret, (b[2] * GridW + b[1]) * bpp, Addr(b))

\* A block-linear call over several GOBs in both directions that copied
\* every block of its grid.
C10_Witness ==
    /\ pc = "returned" /\ args.tileMode # 0 /\ args.alignment >= 1
    /\ GridW * BppOf(args.format) > 64
    /\ GridH > 8 * (2 ^ args.sizeRange)
    /\ Cardinality(ret.copies) = GridW * GridH
    /\ BadReads(ret) = {}

-----------------------------------------------------------------------------
(* Specification of generateDDSHeader calls *)

HeaderDims == {0, 1, 256, 16909060}
HeaderSizes == {0, 8, 65536, 16909060}
HeaderFormats == {0, 11, 45, 255} \cup (25 .. 33)

InitHeader ==
    /\ pc = "header"
    /\ \E w \in HeaderDims, h \in HeaderDims, fmt \in HeaderFormats,
          sz \in HeaderSizes :
          hdrIn = [width |-> w, height |-> h, format |-> fmt, size |-> sz]
    /\ header = <<>>
    /\ args = Null /\ ret = Null
    /\ f = Null /\ i = 0 /\ textures = <<>> /\ oob = {} /\ diag = <<>>
    /\ exitCode = -1 /\ idx = 0 /\ written = <<>>

GenerateHeader ==
    /\ pc = "header"
    /\ header' = generateDDSHeader(hdrIn.width, hdrIn.height, hdrIn.format,
                                   hdrIn.size)
    /\ pc' = "generated"
    /\ UNCHANGED <<args, ret, hdrIn, f, i, textures, oob, diag, exitCode,
                   idx, written>>

NextHeader == GenerateHeader

SpecHeader == InitHeader /\ [][NextHeader]_vars

\* Bytes of the header that hold a field
HeaderFieldBytes ==
    (0 .. 23) \cup (28 .. 31) \cup (76 .. 87) \cup (108 .. 111)

\* C9: the header has 128 bytes: "DDS ", 124 at 4, 0x81007 at 8, height at
\* 12, width at 16, linearSize at 20, 1 at 28, 32 at 76, 4 at 80, the FourCC
\* of the format (zero for a format without one) at 84, 0x1000 at 108, and
\* zero everywhere else.
C9_HeaderLayout ==
    pc = "generated"
        => /\ Len(header) = 128
           /\ SubSeq(header, 1, 4) = <<68, 68, 83, 32>>
           /\ Read32LE(header, 4) = 124
           /\ Read32LE(header, 8) = 528391
           /\ Read32LE(header, 12) = hdrIn.height
           /\ Read32LE(header, 16) = hdrIn.width
           /\ Read32LE(header, 20) = hdrIn.size
           /\ Read32LE(header, 28) = 1
           /\ Read32LE(header, 76) = 32
           /\ Read32LE(header, 80) = 4
           /\ Read32LE(header, 108) = 4096
           /\ SubSeq(header, 85, 88) =
                 CASE hdrIn.format = 26 -> <<68, 88, 84, 49>>
                   [] hdrIn.format = 27 -> <<68, 88, 84, 51>>
                   [] hdrIn.format = 28 -> <<68, 88, 84, 53>>
                   [] hdrIn.format = 29 -> <<65, 84, 73, 49>>
                   [] hdrIn.format = 30 -> <<65, 84, 73, 50>>
                   [] hdrIn.format = 31 -> <<66, 67, 54, 72>>
                   [] hdrIn.format = 32 -> <<66, 67, 55, 32>>
                   [] OTHER -> <<0, 0, 0, 0>>
           /\ \A k \in (0 .. 127) \ HeaderFieldBytes : header[k + 1] = 0

\* The header of a 256 x 256 BC3 texture of 65536 bytes says DXT5.
C9_Witness ==
    /\ pc = "generated"
    /\ hdrIn = [width |-> 256, height |-> 256, format |-> 28, size |-> 65536]
    /\ SubSeq(header, 85, 88) = <<68, 88, 84, 53>>
    /\ Read32LE(header, 20) = 65536

-----------------------------------------------------------------------------
(* BNTX PARSER *)

(* The input file is its length and the values its bytes decode to at the  *)
(* places parseBNTX reads: the header fields, the info-pointer array       *)
(* (slots), the BRTI records by address (recs), and per record the name and*)
(* the first entry of its data-pointer table.  A read that leaves the      *)
(* buffer is undefined behaviour: the process faults or the read yields    *)
(* some value.                                                             *)

\* Where the files of the model keep their parts: a file of 0x300 bytes with
\* the info-pointer array at 0x38, data-pointer tables at 0x60 and 0x68, names
\* at 0x70 and 0x78, the file name at 0x80, records at 0x100 and 0x180, the
\* payload at 0x200.
Layout ==
    [size |-> 768, slots |-> 56, ptrsA |-> 96, ptrsB |-> 104,
     nameA |-> 112, nameB |-> 120, fileName |-> 128,
     recA |-> 256, recB |-> 384, data |-> 512]
FileSize == Layout.size
RecA == Layout.recA
RecB == Layout.recB
RecCut == FileSize - 32    \* "BRTI" here, the record runs off the end
RecEnd == FileSize - 2     \* inside the file, the magic runs off the end
DataAt == Layout.data

InRange(at, width) == at >= 0 /\ at + width <= f.size
Rd(what, at, width) == [what |-> what, at |-> at, width |-> width]
Bad(reads) == {r \in reads : ~InRange(r.at, r.width)}

\* Bytes ReadString(&f[at], maxLen) touches when run bytes before the first
\* zero byte are non-zero
StringExtent(maxLen, run) == IF run + 1 < maxLen THEN run + 1 ELSE maxLen

\* Offsets and widths of the fields read from a BRTI record at pos
FieldReads(pos) ==
    {Rd("tileMode", pos + 16, 1), Rd("flags", pos + 18, 2),
     Rd("swizzle", pos + 20, 2), Rd("numMips", pos + 22, 2),
     Rd("format", pos + 28, 4), Rd("width", pos + 36, 4),
     Rd("height", pos + 40, 4), Rd("sizeRange", pos + 52, 4),
     Rd("imageSize", pos + 80, 4), Rd("alignment", pos + 84, 4),
     Rd("nameAddr", pos + 96, 8), Rd("ptrsAddr", pos + 112, 8)}

\* Values a read outside the buffer may yield
GarbageSlots == {-8, RecA, RecB}
GarbageRecs ==
    {[tileMode |-> 0, format |-> 2817, width |-> 4, height |-> 4,
      sizeRange |-> 0, imageSize |-> 64, alignment |-> 512,
      nameAddr |-> 112, nameLen |-> 4, nameRun |-> 4, name |-> "texA",
      ptrsAddr |-> 96, dataAddr |-> d] : d \in {-1, DataAt}}
GarbageNames == {"?"}
GarbageDataAddrs == {-1, DataAt}

Skip(msg, reads) ==
    [kind |-> "skip", msg |-> msg, reads |-> reads, tex |-> Null]
Fault(reads) ==
    [kind |-> "fault", msg |-> "", reads |-> reads, tex |-> Null]
Push(tex, reads) ==
    [kind |-> "push", msg |-> "", reads |-> reads, tex |-> tex]

\* Lines 330-349: the data pointer check and the record that is appended
AfterDataPtr(rec, name, dataAddr, reads) ==
    IF dataAddr < 0 \/ dataAddr + rec.imageSize > f.size
    THEN Skip("Invalid data address!", reads)
    ELSE Push([name |-> name, width |-> rec.width, height |-> rec.height,
               format |-> rec.format, tileMode |-> rec.tileMode,
               sizeRange |-> rec.sizeRange, alignment |-> rec.alignment,
               imageSize |-> rec.imageSize, dataAddr |-> dataAddr], reads)

\* Line 330: i64 dataAddr = Read64LE_Signed(&f[ptrsAddr])
AfterName(rec, name, reads) ==
    LET rd == Rd("dataPtr", rec.ptrsAddr, 8)
    IN  IF InRange(rd.at, rd.width)
        THEN {AfterDataPtr(rec, name, rec.dataAddr, reads \cup {rd})}
        ELSE {Fault(reads \cup {rd})}
             \cup {AfterDataPtr(rec, name, d, reads \cup {rd}) :
                       d \in GarbageDataAddrs}

\* Lines 312-313: the length-prefixed name
AfterFields(rec, reads) ==
    LET rdLen == Rd("nameLen", rec.nameAddr, 2)
        rdStr == Rd("name", rec.nameAddr + 2,
                    StringExtent(rec.nameLen, rec.nameRun))
    IN  IF InRange(rdLen.at, rdLen.width) /\ InRange(rdStr.at, rdStr.width)
        THEN AfterName(rec, rec.name, reads \cup {rdLen, rdStr})
        ELSE {Fault(reads \cup {rdLen})}
             \cup UNION {AfterName(rec, n, reads \cup {rdLen}) :
                            n \in GarbageNames}

\* Lines 299-310: the fixed-offset fields of the record at pos
AfterMagic(pos, reads) ==
    LET rds == FieldReads(pos)
    IN  IF Bad(rds) = {}
        THEN AfterFields(f.recs[pos], reads \cup rds)
        ELSE {Fault(reads \cup rds)}
             \cup UNION {AfterFields(g, reads \cup rds) : g \in GarbageRecs}

\* Lines 292-297: the BRTI magic at pos
AfterInfoCheck(pos, reads) ==
    LET rd == Rd("magic", pos, 4)
        Go(match) == IF match THEN AfterMagic(pos, reads \cup {rd})
                     ELSE {Skip("Invalid BRTI magic!", reads \cup {rd})}
    IN  IF InRange(rd.at, rd.width)
        THEN Go(f.magicAt[pos])
        ELSE {Fault(reads \cup {rd})} \cup Go(TRUE) \cup Go(FALSE)

\* Lines 287-290: the range check of the info pointer
AfterSlot(texInfoAddr, reads) ==
    IF texInfoAddr < 0 \/ texInfoAddr >= f.size
    THEN {Skip("Invalid texture info address!", reads)}
    ELSE AfterInfoCheck(texInfoAddr, reads)

\* One iteration of the loop of parseBNTX for index n: every way it can end
Iteration(n) ==
    LET rd == Rd("infoPtr", f.infoPtrAddr + n * 8, 8)
    IN  IF InRange(rd.at, rd.width)
        THEN AfterSlot(f.slots[n + 1], {rd})
        ELSE {Fault({rd})}
             \cup UNION {AfterSlot(v, {rd}) : v \in GarbageSlots}


FatalReason ==
    IF f.size < 256 THEN "File too small!"
    ELSE IF ~f.magic THEN "Not a valid BNTX file!"
    ELSE IF ~f.bom THEN "Big endian not supported!"
    ELSE IF ~f.nx THEN "Invalid NX header!"
    ELSE ""

\* Lines 263-266, reached once the size, magic and endianness checks pass
HeaderReads ==
    IF f.size >= 256 /\ f.magic /\ f.bom
    THEN {Rd("fileNameAddr", 16, 4), Rd("fileSize", 28, 4),
          Rd("fileName", f.fileNameAddr, StringExtent(256, f.fileNameRun)),
          Rd("nxMagic", 32, 4)}
    ELSE {}

\* Lines 277-279
CountReads ==
    {Rd("texCount", 36, 4), Rd("infoPtrAddr", 40, 8), Rd("dataBlkAddr", 48, 8)}

\* ParseReject returning the empty list without a message
ParseReject_Mut ==
    /\ pc = "parse"
    /\ FatalReason # ""
    /\ oob' = oob \cup Bad(HeaderReads)
    /\ pc' = "parsed"
    /\ UNCHANGED <<args, ret, hdrIn, header, f, i, textures, diag, exitCode,
                   idx, written>>

\* A fatal check fails: parseBNTX reports it and returns the empty list.
ParseReject ==
    /\ pc = "parse"
    /\ FatalReason # ""
    /\ oob' = oob \cup Bad(HeaderReads)
    /\ diag' = Append(diag, FatalReason)
    /\ pc' = "parsed"
    /\ UNCHANGED <<args, ret, hdrIn, header, f, i, textures, exitCode, idx,
                   written>>

\* All fatal checks pass: the loop starts.
ParseHeader ==
    /\ pc = "parse"
    /\ FatalReason = ""
    /\ oob' = oob \cup Bad(HeaderReads \cup CountReads)
    /\ i' = 0
    /\ pc' = "loop"
    /\ UNCHANGED <<args, ret, hdrIn, header, f, textures, diag, exitCode, idx,
                   written>>

\* The file name read leaves the buffer and the process is killed.
ParseHeaderFault ==
    /\ pc = "parse"
    /\ Bad(HeaderReads) # {}
    /\ oob' = oob \cup Bad(HeaderReads)
    /\ pc' = "header_fault"
    /\ UNCHANGED <<args, ret, hdrIn, header, f, i, textures, diag, exitCode,
                   idx, written>>

\* An iteration ends in continue.
ParseTextureSkip ==
    /\ pc = "loop" /\ i < f.texCount
    /\ \E o \in Iteration(i) :
          /\ o.kind = "skip"
          /\ oob' = oob \cup Bad(o.reads)
          /\ diag' = Append(diag, o.msg)
    /\ i' = i + 1
    /\ UNCHANGED <<pc, args, ret, hdrIn, header, f, textures, exitCode, idx,
                   written>>

\* An iteration ends in textures.push_back(tex).
ParseTextureAdd ==
    /\ pc = "loop" /\ i < f.texCount
    /\ \E o \in Iteration(i) :
          /\ o.kind = "push"
          /\ oob' = oob \cup Bad(o.reads)
          /\ textures' = Append(textures, o.tex)
    /\ i' = i + 1
    /\ UNCHANGED <<pc, args, ret, hdrIn, header, f, diag, exitCode, idx,
                   written>>

\* A read of the iteration leaves the buffer and the process is killed.
ParseTextureFault ==
    /\ pc = "loop" /\ i < f.texCount
    /\ \E o \in Iteration(i) :
          /\ o.kind = "fault"
          /\ oob' = oob \cup Bad(o.reads)
    /\ pc' = "loop_fault"
    /\ UNCHANGED <<args, ret, hdrIn, header, f, i, textures, diag, exitCode,
                   idx, written>>

ParseReturn ==
    /\ pc = "loop" /\ i >= f.texCount
    /\ pc' = "parsed"
    /\ UNCHANGED <<args, ret, hdrIn, header, f, i, textures, oob, diag,
                   exitCode, idx, written>>

-----------------------------------------------------------------------------
(* MAIN *)

\* Lines 477-482
MainNoTextures ==
    /\ pc = "parsed"
    /\ textures = <<>>
    /\ diag' = Append(diag, "Error: No textures found in file!")
    /\ exitCode' = 1
    /\ pc' = "exit"
    /\ UNCHANGED <<args, ret, hdrIn, header, f, i, textures, oob, idx,
                   written>>

\* Line 484: the call of saveTextures
MainSaveTextures ==
    /\ pc = "parsed"
    /\ textures # <<>>
    /\ idx' = 1
    /\ pc' = "save"
    /\ UNCHANGED <<args, ret, hdrIn, header, f, i, textures, oob, diag,
                   exitCode, written>>

-----------------------------------------------------------------------------
(* Specification of main up to the call of saveTextures *)

GoodFile ==
    [size |-> FileSize, magic |-> TRUE, bom |-> TRUE,
     fileNameAddr |-> Layout.fileName, fileNameRun |-> 1, nx |-> TRUE,
     texCount |-> 0, infoPtrAddr |-> Layout.slots, slots |-> <<>>,
     magicAt |-> (RecA :> TRUE) @@ (RecB :> TRUE) @@ (RecCut :> TRUE),
     recs |->
        (RecA :> [tileMode |-> 0, format |-> 2817, width |-> 4, height |-> 4,
                  sizeRange |-> 0, imageSize |-> 64, alignment |-> 512,
                  nameAddr |-> Layout.nameA, nameLen |-> 4, nameRun |-> 4,
                  name |-> "texA", ptrsAddr |-> Layout.ptrsA,
                  dataAddr |-> DataAt])
        @@
        (RecB :> [tileMode |-> 1, format |-> 7169, width |-> 8, height |-> 8,
                  sizeRange |-> 0, imageSize |-> 64, alignment |-> 512,
                  nameAddr |-> Layout.nameB, nameLen |-> 4, nameRun |-> 4,
                  name |-> "texB", ptrsAddr |-> Layout.ptrsB,
                  dataAddr |-> DataAt])]

\* Files a fatal check rejects
RejectedFiles ==
    {[GoodFile EXCEPT !.size = n] : n \in {0, 16, 255}}
    \cup {[GoodFile EXCEPT !.magic = FALSE], [GoodFile EXCEPT !.bom = FALSE]}
    \cup {[GoodFile EXCEPT !.nx = FALSE, !.fileNameAddr = a] :
             a \in {Layout.fileName, FileSize + 256}}

SlotValues == {-8, RecA, RecB, RecCut, RecEnd, FileSize}

RECURSIVE SeqsUpTo(_, _)
SeqsUpTo(S, n) ==
    IF n = 0 THEN {<<>>}
    ELSE LET shorter == SeqsUpTo(S, n - 1)
         IN  shorter \cup {Append(q, v) : q \in shorter, v \in S}

\* Files that pass the fatal checks
ValidFiles ==
    {[GoodFile EXCEPT
        !.fileNameAddr = fn[1], !.fileNameRun = fn[2],
        !.texCount = Len(sl), !.slots = sl, !.infoPtrAddr = ip,
        !.magicAt[RecA] = m,
        !.recs[RecA].nameAddr = na, !.recs[RecA].ptrsAddr = pa,
        !.recs[RecA].dataAddr = da] :
        fn \in {<<Layout.fileName, 1>>, <<FileSize - 1, 1>>,
                <<FileSize + 256, 1>>},
        sl \in SeqsUpTo(SlotValues, MaxTex),
        ip \in {Layout.slots, FileSize - 8},
        m \in BOOLEAN,
        na \in {Layout.nameA, FileSize + 64},
        pa \in {Layout.ptrsA, FileSize + 8},
        da \in {-1, DataAt, FileSize - 8}}

InitMain ==
    /\ pc = "parse"
    /\ f \in RejectedFiles \cup ValidFiles
    /\ args = Null /\ ret = Null /\ hdrIn = Null /\ header = <<>>
    /\ i = 0 /\ textures = <<>> /\ oob = {} /\ diag = <<>>
    /\ exitCode = -1 /\ idx = 0 /\ written = <<>>

NextMain ==
    \/ ParseReject \/ ParseHeader \/ ParseHeaderFault
    \/ ParseTextureSkip \/ ParseTextureAdd \/ ParseTextureFault
    \/ ParseReturn
    \/ MainNoTextures \/ MainSaveTextures

SpecMain == InitMain /\ [][NextMain]_vars

-----------------------------------------------------------------------------
(* TEXTURE EXPORT *)

FormatTypeOf(tex) == tex.format \div 256      \* tex.format >> 8

\* The deswizzle call of saveTextures for tex
SaveDeswizzled(tex) == Deswizzled([tex EXCEPT !.format = FormatTypeOf(tex)])

\* What saveTextures writes for tex when the reads that left data yielded g:
\* the file name, the header, and the vector cut to size when it is longer
Emission(tex, g) ==
    LET formatType == FormatTypeOf(tex)
        size == ExpectedSize(tex.width, tex.height, formatType)
        r == SaveDeswizzled(tex)
        len == IF r.surfSize > size THEN size ELSE r.surfSize
    IN  [name |-> tex.name,
         header |-> generateDDSHeader(tex.width, tex.height, formatType, size),
         payload |-> [size |-> len, bpp |-> r.bpp, dataAddr |-> tex.dataAddr,
                      dataLen |-> r.dataLen, garbage |-> g,
                      copies |-> {c \in r.copies : c.dst < len}]]

GarbageOf(tex) ==
    LET r == SaveDeswizzled(tex)
    IN  IF BadReads(r) # {} \/ BadWrites(r) # {} THEN GarbageBytes ELSE {0}

\* SaveSkipUnsupported writing the texture anyway, with the default block
\* size and bytes per block
SaveSkipUnsupported_Mut ==
    /\ pc = "save" /\ idx <= Len(textures)
    /\ FormatTypeOf(textures[idx]) \notin DOMAIN formats
    /\ written' = Append(written, Emission(textures[idx], 0))
    /\ idx' = idx + 1
    /\ UNCHANGED <<pc, args, ret, hdrIn, header, f, i, textures, oob, diag,
                   exitCode>>

\* Lines 363-367: a format without an entry in formats is skipped.
SaveSkipUnsupported ==
    /\ pc = "save" /\ idx <= Len(textures)
    /\ FormatTypeOf(textures[idx]) \notin DOMAIN formats
    /\ idx' = idx + 1
    /\ UNCHANGED <<pc, args, ret, hdrIn, header, f, i, textures, oob, diag,
                   exitCode, written>>

\* Lines 369-409: the texture is deswizzled and its file is written.
SaveTexture ==
    /\ pc = "save" /\ idx <= Len(textures)
    /\ FormatTypeOf(textures[idx]) \in DOMAIN formats
    /\ \E g \in GarbageOf(textures[idx]) :
          written' = Append(written, Emission(textures[idx], g))
    /\ idx' = idx + 1
    /\ UNCHANGED <<pc, args, ret, hdrIn, header, f, i, textures, oob, diag,
                   exitCode>>

\* Lines 399-403: the output file cannot be created.
SaveOpenFail ==
    /\ pc = "save" /\ idx <= Len(textures)
    /\ FormatTypeOf(textures[idx]) \in DOMAIN formats
    /\ diag' = Append(diag, "Failed to create")
    /\ idx' = idx + 1
    /\ UNCHANGED <<pc, args, ret, hdrIn, header, f, i, textures, oob,
                   exitCode, written>>

\* A memcpy of deswizzle leaves a buffer and the process is killed.
SaveFault ==
    /\ pc = "save" /\ idx <= Len(textures)
    /\ FormatTypeOf(textures[idx]) \in DOMAIN formats
    /\ LET r == SaveDeswizzled(textures[idx])
       IN  BadReads(r) # {} \/ BadWrites(r) # {}
    /\ pc' = "save_fault"
    /\ UNCHANGED <<args, ret, hdrIn, header, f, i, textures, oob, diag,
                   exitCode, idx, written>>

\* Lines 486-493: saveTextures returned, main returns 0.
MainFinish ==
    /\ pc = "save" /\ idx > Len(textures)
    /\ exitCode' = 0
    /\ pc' = "exit"
    /\ UNCHANGED <<args, ret, hdrIn, header, f, i, textures, oob, diag, idx,
                   written>>

-----------------------------------------------------------------------------
(* Specification of saveTextures, from its call by main *)

Tex(name, format, width, height, tileMode, alignment, imageSize) ==
    [name |-> name, width |-> width, height |-> height, format |-> format,
     tileMode |-> tileMode, sizeRange |-> 0, alignment |-> alignment,
     imageSize |-> imageSize, dataAddr |-> DataAt]

SaveTextureSet ==
    {Tex("bc3", 7169, 8, 8, 1, 512, 512),     \* BC3, block-linear, whole
     Tex("rgba", 2817, 4, 4, 0, 512, 128),    \* RGBA8, linear, whole
     Tex("what", 65281, 4, 4, 0, 512, 128),   \* format type 0xff
     Tex("none", 1, 4, 4, 1, 512, 512),       \* format type 0
     Tex("short", 2817, 1, 2, 0, 1, 8),       \* payload without the padding
     Tex("bc1", 6657, 4, 4, 0, 0, 32)}        \* BC1, alignment 0

InitSave ==
    /\ pc = "save"
    /\ textures \in SeqsUpTo(SaveTextureSet, MaxTextures) \ {<<>>}
    /\ idx = 1
    /\ written = <<>>
    /\ args = Null /\ ret = Null /\ hdrIn = Null /\ header = <<>>
    /\ f = Null /\ i = 0 /\ oob = {} /\ diag = <<>> /\ exitCode = -1

NextSave ==
    \/ SaveSkipUnsupported \/ SaveTexture \/ SaveOpenFail \/ SaveFault
    \/ MainFinish

SpecSave == InitSave /\ [][NextSave]_vars

-----------------------------------------------------------------------------
(* Properties of saveTextures *)

\* C6: the payload of every file written has as many bytes as the
\* linear-size field at offset 20 of its header says.
C6_PayloadSize ==
    \A k \in 1 .. Len(written) :
        written[k].payload.size = Read32LE(written[k].header, 20)

Known(tex) == FormatTypeOf(tex) \in DOMAIN formats

\* Files saveTextures may write for a texture of a known format
Emissions(tex) == {Emission(tex, g) : g \in GarbageOf(tex)}

\* w can be what a run over the list k wrote: its files are, in order, files
\* of textures of k
RECURSIVE WrittenFrom(_, _)
WrittenFrom(w, k) ==
    IF w = <<>> THEN TRUE
    ELSE IF k = <<>> THEN FALSE
    ELSE \/ Head(w) \in Emissions(Head(k)) /\ WrittenFrom(Tail(w), Tail(k))
         \/ WrittenFrom(w, Tail(k))

\* C7: a texture whose format has no entry in the format table writes no
\* file, and the files written are those of a run over the list without the
\* textures of unknown format.
C7_UnknownFormatSkipped ==
    LET done == SubSeq(textures, 1, idx - 1)
    IN  WrittenFrom(written, SelectSeq(done, Known))

\* A texture of unknown format was passed over and the texture after it was
\* written.
C7_Witness ==
    /\ pc = "save" /\ idx = 3 /\ Len(textures) >= 2
    /\ ~Known(textures[1]) /\ Known(textures[2])
    /\ Len(written) = 1
    /\ written[1].name = textures[2].name

-----------------------------------------------------------------------------
(* Properties of parseBNTX and main *)

\* C2: every read parseBNTX performs lies inside the buffer.
C2_ReadsInRange == oob = {}

\* The record the file holds for index k, when its info pointer is in
\* [0, size), the record starts with "BRTI" and its data pointer is
\* non-negative with dataAddr + imageSize <= size
SlotPasses(k) ==
    LET v == f.slots[k + 1]
    IN  /\ v >= 0 /\ v < f.size
        /\ v \in DOMAIN f.recs
        /\ f.magicAt[v]
        /\ f.recs[v].dataAddr >= 0
        /\ f.recs[v].dataAddr + f.recs[v].imageSize <= f.size

SlotRecord(k) ==
    LET r == f.recs[f.slots[k + 1]]
    IN  [name |-> r.name, width |-> r.width, height |-> r.height,
         format |-> r.format, tileMode |-> r.tileMode,
         sizeRange |-> r.sizeRange, alignment |-> r.alignment,
         imageSize |-> r.imageSize, dataAddr |-> r.dataAddr]

RECURSIVE ExpectedTextures(_)
ExpectedTextures(n) ==
    IF n = 0 THEN <<>>
    ELSE IF SlotPasses(n - 1)
         THEN Append(ExpectedTextures(n - 1), SlotRecord(n - 1))
         ELSE ExpectedTextures(n - 1)

\* C3: for a container that passes the fatal checks the loop visits every
\* index, never stops early, and the list holds exactly the records of the
\* indices visited so far that pass the three per-texture checks, in order.
C3_EveryIndexVisited ==
    (FatalReason = "" /\ pc # "parse" /\ pc # "header_fault")
        => /\ pc # "loop_fault"
           /\ textures = ExpectedTextures(i)

FatalMessages ==
    {"File too small!", "Not a valid BNTX file!", "Big endian not supported!",
     "Invalid NX header!"}

====
